---- MODULE Spec2Model ----
(***************************************************************************)
(* A model of metar.py: main() loads the airport list, fetches and parses  *)
(* the METAR feed once, then runs the animation loop, each tick calling    *)
(* update_led_strip() and toggling wind_cycle.                             *)
(***************************************************************************)
EXTENDS Integers, Sequences, FiniteSets, TLC

\* Longest airport list explored.
MaxAirports == 2

-----------------------------------------------------------------------------
\* Configuration constants of metar.py

COLOR_VFR == <<0, 255, 0>>
COLOR_VFR_FADE == <<0, 125, 0>>
COLOR_MVFR == <<0, 0, 255>>
COLOR_MVFR_FADE == <<0, 0, 125>>
COLOR_IFR == <<255, 0, 0>>
COLOR_IFR_FADE == <<125, 0, 0>>
COLOR_LIFR == <<255, 0, 255>>
COLOR_LIFR_FADE == <<125, 0, 125>>
COLOR_CLEAR == <<0, 0, 0>>
COLOR_LIGHTNING == <<255, 255, 255>>
COLOR_HIGH_WINDS == <<255, 255, 0>>

FADE_INSTEAD_OF_BLINK == TRUE
WIND_BLINK_THRESHOLD == 15
SHOW_LEGEND == TRUE
LEGEND_LED_COUNT == 7
OFFSET_LEGEND_BY == 0

\* The settings that are explored: the animation toggles, the high-wind
\* threshold (-1 disables it), the strip length and the blink timing
\* (BLINK_SPEED is held in tenths of a second).
Configs ==
    [ ACTIVATE_WIND_ANIMATION : BOOLEAN,
      ACTIVATE_LIGHTNING_ANIMATION : BOOLEAN,
      ALWAYS_BLINK_FOR_GUSTS : BOOLEAN,
      ACTIVATE_EXTERNAL_METAR_DISPLAY : BOOLEAN,
      HIGH_WINDS_THRESHOLD : {-1, 25},
      LED_COUNT : {1, MaxAirports + LEGEND_LED_COUNT - 1,
                   MaxAirports + LEGEND_LED_COUNT},
      BLINK_TOTALTIME_SECONDS : {1, 2},
      BLINK_SPEED : {6} ]

-----------------------------------------------------------------------------
\* Inputs: the airports file and the feed

AirportCodes == {"KLIT", "NULL", "null"}

RECURSIVE SeqsUpTo(_, _)
SeqsUpTo(S, n) ==
    IF n = 0 THEN {<<>>}
    ELSE LET shorter == SeqsUpTo(S, n - 1)
         IN  shorter \cup {Append(s, x) : s \in shorter, x \in S}

AirportLists == SeqsUpTo(AirportCodes, MaxAirports)

\* A child element of a METAR element: <<>> when the element is missing,
\* <<text>> when it is present.
TS == <<"T", "S">>
TSNO == <<"T", "S", "N", "O">>

MetarElems ==
    [ station_id : {<<"KLIT">>},
      flight_category : {<<>>, <<"VFR">>, <<"MVFR">>, <<"IFR">>, <<"LIFR">>,
                         <<"UNKNOWN">>},
      wind_speed_kt : {<<>>, <<15>>, <<25>>},
      wind_gust_kt : {<<>>, <<10>>, <<15>>, <<16>>},
      raw_text : {<<TS>>, <<TSNO>>} ]

\* What the server may answer: bytes that do not parse as XML, or a document
\* holding no METAR or one METAR.
Malformed == [wellformed |-> FALSE, metars |-> <<>>]

Contents ==
    {Malformed}
    \cup {[wellformed |-> TRUE, metars |-> d] :
             d \in {<<>>} \cup {<<m>> : m \in MetarElems}}

\* metar_content before the fetch
NoContent == <<>>

-----------------------------------------------------------------------------
VARIABLES
    config,          \* the module-level settings
    airports,        \* main: airports
    pc,              \* position in main
    content,         \* main: metar_content
    condition_dict,  \* main: condition_dict
    pixels,          \* the NeoPixel buffer
    wind_cycle,      \* main: wind_cycle
    loop_limit,      \* main: loop_limit
    render_phases,   \* wind_cycle of each update_led_strip call so far
    last_pass        \* what the last update_led_strip call did

vars == <<config, airports, pc, content, condition_dict, pixels, wind_cycle,
          loop_limit, render_phases, last_pass>>

-----------------------------------------------------------------------------
\* a comparison that forgets .upper()
UpperSame(s) == s

\* str.upper() on the airport codes
Upper(s) == CASE s = "null" -> "NULL"
              [] OTHER -> s

\* the substring test  t in s
Contains(s, t) ==
    \E i \in 1..(Len(s) - Len(t) + 1) : SubSeq(s, i, i + Len(t) - 1) = t

\* int(n / d): truncation in place of round()
RoundDown(n, d) == n \div d

\* int(round(n / d)) for positive d: Python rounds halves to even
RoundHalfEven(n, d) ==
    LET q == n \div d
        r == n % d
    IN  IF 2 * r < d THEN q
        ELSE IF 2 * r > d THEN q + 1
        ELSE IF q % 2 = 0 THEN q ELSE q + 1

\* dict.get(key, None): <<>> for None
DictGet(d, k) == IF k \in DOMAIN d THEN <<d[k]>> ELSE <<>>

EmptyDict == [k \in {} |-> 0]

-----------------------------------------------------------------------------
\* parse_metar

\* a gust equal to the threshold counted as a gust
WindGustAtLeast(metar) ==
    IF metar.wind_gust_kt /= <<>>
    THEN config.ALWAYS_BLINK_FOR_GUSTS
         \/ metar.wind_gust_kt[1] >= WIND_BLINK_THRESHOLD
    ELSE FALSE

WindGust(metar) ==
    IF metar.wind_gust_kt /= <<>>
    THEN config.ALWAYS_BLINK_FOR_GUSTS
         \/ metar.wind_gust_kt[1] > WIND_BLINK_THRESHOLD
    ELSE FALSE

Lightning(metar) ==
    LET raw == IF metar.raw_text /= <<>> THEN metar.raw_text[1] ELSE <<>>
    IN  (Contains(raw, <<"L", "T", "G">>) \/ Contains(raw, TS))
        /\ ~Contains(raw, TSNO)

Conditions(metar) ==
    [ flightCategory |-> metar.flight_category[1],
      windSpeed |-> IF metar.wind_speed_kt /= <<>>
                    THEN metar.wind_speed_kt[1] ELSE 0,
      windGustSpeed |-> IF metar.wind_gust_kt /= <<>>
                        THEN metar.wind_gust_kt[1] ELSE 0,
      windGust |-> WindGust(metar),
      lightning |-> Lightning(metar) ]

RECURSIVE ParseFrom(_, _, _)
ParseFrom(doc, i, dict) ==
    IF i > Len(doc) THEN dict
    ELSE LET metar == doc[i]
         IN  IF metar.station_id = <<>> \/ metar.flight_category = <<>>
             THEN ParseFrom(doc, i + 1, dict)
             ELSE LET id == metar.station_id[1]
                  IN  ParseFrom(doc, i + 1,
                        [k \in DOMAIN dict \cup {id} |->
                            IF k = id THEN Conditions(metar) ELSE dict[k]])

parse_metar(doc) == ParseFrom(doc, 1, EmptyDict)

-----------------------------------------------------------------------------
\* update_led_strip: the colour of one airport

Windy(conditions, cycle) ==
    /\ config.ACTIVATE_WIND_ANIMATION
    /\ cycle
    /\ (conditions.windSpeed >= WIND_BLINK_THRESHOLD \/ conditions.windGust)

HighWinds(conditions, cycle) ==
    /\ Windy(conditions, cycle)
    /\ config.HIGH_WINDS_THRESHOLD /= -1
    /\ (conditions.windSpeed >= config.HIGH_WINDS_THRESHOLD
        \/ conditions.windGustSpeed >= config.HIGH_WINDS_THRESHOLD)

\* lightning gated on the wind phase
LightningCondWindPhase(conditions, cycle) ==
    /\ config.ACTIVATE_LIGHTNING_ANIMATION
    /\ cycle
    /\ conditions.lightning

LightningCond(conditions, cycle) ==
    /\ config.ACTIVATE_LIGHTNING_ANIMATION
    /\ ~cycle
    /\ conditions.lightning

\* the faded colour used where the base colour belongs
CategoryColorFaded(base, fade, windy, high_winds, lightning_cond) ==
    IF ~(windy \/ lightning_cond) THEN fade
    ELSE IF lightning_cond THEN COLOR_LIGHTNING
    ELSE IF high_winds THEN COLOR_HIGH_WINDS
    ELSE IF FADE_INSTEAD_OF_BLINK THEN fade ELSE COLOR_CLEAR

\* the four identical if/elif chains, one per flight category
CategoryColor(base, fade, windy, high_winds, lightning_cond) ==
    IF ~(windy \/ lightning_cond) THEN base
    ELSE IF lightning_cond THEN COLOR_LIGHTNING
    ELSE IF high_winds THEN COLOR_HIGH_WINDS
    ELSE IF FADE_INSTEAD_OF_BLINK THEN fade ELSE COLOR_CLEAR

\* got is the result of condition_dict.get(airport, None)
AirportColor(got, cycle) ==
    IF got = <<>> THEN COLOR_CLEAR
    ELSE LET conditions == got[1]
             windy == Windy(conditions, cycle)
             high_winds == HighWinds(conditions, cycle)
             lightning_cond == LightningCond(conditions, cycle)
             fc == conditions.flightCategory
         IN  IF fc = "VFR"
             THEN CategoryColor(COLOR_VFR, COLOR_VFR_FADE,
                                windy, high_winds, lightning_cond)
             ELSE IF fc = "MVFR"
             THEN CategoryColor(COLOR_MVFR, COLOR_MVFR_FADE,
                                windy, high_winds, lightning_cond)
             ELSE IF fc = "IFR"
             THEN CategoryColor(COLOR_IFR, COLOR_IFR_FADE,
                                windy, high_winds, lightning_cond)
             ELSE IF fc = "LIFR"
             THEN CategoryColor(COLOR_LIFR, COLOR_LIFR_FADE,
                                windy, high_winds, lightning_cond)
             ELSE COLOR_CLEAR

-----------------------------------------------------------------------------
\* update_led_strip: one render pass

\* pixels[i] = color; an index outside the buffer raises IndexError
InRange(px, i) == i \in DOMAIN px

\* A pass in progress: the local led_index, the pixel buffer, the
\* assignments made so far (writes), the keys looked up in condition_dict
\* (lookups), the LED index each list position was given (slot), the
\* "Setting LED ..." lines printed (log), and how the legend block ended.
StartPass(px) ==
    [ led_index |-> 0, pixels |-> px, writes |-> <<>>, lookups |-> <<>>,
      slot |-> <<>>, log |-> <<>>, legend |-> "none", raised |-> FALSE ]

RECURSIVE AirportLoop(_, _, _, _)
AirportLoop(list, dict, cycle, st) ==
    IF Len(st.slot) = Len(list) THEN st
    ELSE LET airport == list[Len(st.slot) + 1]
         IN  IF Upper(airport) = "NULL"
             THEN AirportLoop(list, dict, cycle,
                    [st EXCEPT !.slot = Append(@, st.led_index),
                               !.led_index = @ + 1])
             ELSE
               LET got == DictGet(dict, airport)
                   color == AirportColor(got, cycle)
                   line == [ led_index |-> st.led_index,
                             airport |-> airport,
                             color |-> color,
                             lightning |-> got /= <<>>
                                 /\ LightningCond(got[1], cycle),
                             high_winds |-> got /= <<>>
                                 /\ HighWinds(got[1], cycle),
                             windy |-> got /= <<>>
                                 /\ Windy(got[1], cycle) ]
                   ok == InRange(st.pixels, st.led_index)
               IN  AirportLoop(list, dict, cycle,
                    [st EXCEPT
                       !.lookups = Append(@, airport),
                       !.log = Append(@, line),
                       !.pixels = IF ok
                                  THEN [@ EXCEPT ![st.led_index] = color]
                                  ELSE @,
                       !.writes = IF ok
                                  THEN Append(@, <<st.led_index, color>>)
                                  ELSE @,
                       !.slot = Append(@, st.led_index),
                       !.led_index = @ + 1])

\* the assignments of the legend block, in program order
LegendWrites(legend_start, cycle) ==
    <<  <<legend_start, COLOR_VFR>>,
        <<legend_start + 1, COLOR_MVFR>>,
        <<legend_start + 2, COLOR_IFR>>,
        <<legend_start + 3, COLOR_LIFR>> >>
    \o (IF config.ACTIVATE_LIGHTNING_ANIMATION
        THEN << <<legend_start + 4,
                  IF cycle THEN COLOR_LIGHTNING ELSE COLOR_VFR>> >>
        ELSE <<>>)
    \o (IF config.ACTIVATE_WIND_ANIMATION
        THEN << <<legend_start + 5,
                  IF ~cycle THEN COLOR_VFR
                  ELSE IF FADE_INSTEAD_OF_BLINK THEN COLOR_VFR_FADE
                  ELSE COLOR_CLEAR>> >>
             \o (IF config.HIGH_WINDS_THRESHOLD /= -1
                 THEN << <<legend_start + 6,
                           IF ~cycle THEN COLOR_VFR
                           ELSE COLOR_HIGH_WINDS>> >>
                 ELSE <<>>)
        ELSE <<>>)

\* the legend assignments are not guarded: the first one outside the buffer
\* raises and ends the pass
RECURSIVE ApplyWrites(_, _)
ApplyWrites(ws, st) ==
    IF ws = <<>> THEN st
    ELSE IF InRange(st.pixels, Head(ws)[1])
    THEN ApplyWrites(Tail(ws),
            [st EXCEPT !.pixels = [@ EXCEPT ![Head(ws)[1]] = Head(ws)[2]],
                       !.writes = Append(@, Head(ws))])
    ELSE [st EXCEPT !.raised = TRUE]

LegendFits(legend_start) ==
    legend_start + LEGEND_LED_COUNT <= config.LED_COUNT

LegendBlock(cycle, st) ==
    IF SHOW_LEGEND
    THEN LET legend_start == st.led_index + OFFSET_LEGEND_BY
         IN  IF LegendFits(legend_start)
             THEN ApplyWrites(LegendWrites(legend_start, cycle),
                              [st EXCEPT !.legend = "shown"])
             ELSE [st EXCEPT !.legend = "no room"]
    ELSE st

update_led_strip(px, list, dict, cycle) ==
    LegendBlock(cycle, AirportLoop(list, dict, cycle, StartPass(px)))

-----------------------------------------------------------------------------
\* main

LoopLimit ==
    IF \/ config.ACTIVATE_WIND_ANIMATION
       \/ config.ACTIVATE_LIGHTNING_ANIMATION
       \/ config.ACTIVATE_EXTERNAL_METAR_DISPLAY
    THEN RoundHalfEven(10 * config.BLINK_TOTALTIME_SECONDS,
                       config.BLINK_SPEED)
    ELSE 1

TooMany == Len(airports) > config.LED_COUNT

Init ==
    /\ config \in Configs
    /\ airports \in AirportLists
    /\ pc = "start"
    /\ content = NoContent
    /\ condition_dict = EmptyDict
    /\ pixels = [i \in 0..(config.LED_COUNT - 1) |-> COLOR_CLEAR]
    /\ wind_cycle = FALSE
    /\ loop_limit = 0
    /\ render_phases = <<>>
    /\ last_pass = StartPass(pixels)

\* len(airports) > LED_COUNT: print the warning and return
TooManyAirports ==
    /\ pc = "start"
    /\ TooMany
    /\ pc' = "returned"
    /\ UNCHANGED <<config, airports, content, condition_dict, pixels,
                   wind_cycle, loop_limit, render_phases, last_pass>>

\* fetch_metar_data returns the server's answer
FetchOk ==
    /\ pc = "start"
    /\ ~TooMany
    /\ \E c \in Contents : content' = <<c>>
    /\ pc' = "parse"
    /\ UNCHANGED <<config, airports, condition_dict, pixels, wind_cycle,
                   loop_limit, render_phases, last_pass>>

\* urlopen raises; main has no handler
FetchFail ==
    /\ pc = "start"
    /\ ~TooMany
    /\ pc' = "fetch raised"
    /\ UNCHANGED <<config, airports, content, condition_dict, pixels,
                   wind_cycle, loop_limit, render_phases, last_pass>>

ParseOk ==
    /\ pc = "parse"
    /\ content[1].wellformed
    /\ condition_dict' = parse_metar(content[1].metars)
    /\ pc' = "setup"
    /\ UNCHANGED <<config, airports, content, pixels, wind_cycle,
                   loop_limit, render_phases, last_pass>>

\* ET.fromstring raises; main has no handler
ParseFail ==
    /\ pc = "parse"
    /\ ~content[1].wellformed
    /\ pc' = "parse raised"
    /\ UNCHANGED <<config, airports, content, condition_dict, pixels,
                   wind_cycle, loop_limit, render_phases, last_pass>>

SetupLoop ==
    /\ pc = "setup"
    /\ loop_limit' = LoopLimit
    /\ wind_cycle' = FALSE
    /\ pc' = "loop"
    /\ UNCHANGED <<config, airports, content, condition_dict, pixels,
                   render_phases, last_pass>>

\* the phase left as it is
NextCycleStuck(cycle) == cycle

\* wind_cycle = not wind_cycle
NextCycle(cycle) == ~cycle

\* one iteration of the while loop: the render pass, pixels.show(), the
\* phase toggle and the countdown.  The external display rotation (lines
\* 341-351) touches none of these variables and is left out.
Tick ==
    /\ pc = "loop"
    /\ loop_limit > 0
    /\ LET pass == update_led_strip(pixels, airports, condition_dict,
                                    wind_cycle)
       IN  /\ pixels' = pass.pixels
           /\ last_pass' = pass
           /\ render_phases' = Append(render_phases, wind_cycle)
           /\ IF pass.raised
              THEN /\ pc' = "render raised"
                   /\ UNCHANGED <<wind_cycle, loop_limit>>
              ELSE /\ wind_cycle' = NextCycle(wind_cycle)
                   /\ loop_limit' = loop_limit - 1
                   /\ pc' = pc
    /\ UNCHANGED <<config, airports, content, condition_dict>>

\* the loop condition fails: print("Done.")
Finish ==
    /\ pc = "loop"
    /\ ~(loop_limit > 0)
    /\ pc' = "done"
    /\ UNCHANGED <<config, airports, content, condition_dict, pixels,
                   wind_cycle, loop_limit, render_phases, last_pass>>

Next ==
    \/ TooManyAirports
    \/ FetchOk
    \/ FetchFail
    \/ ParseOk
    \/ ParseFail
    \/ SetupLoop
    \/ Tick
    \/ Finish

Spec == Init /\ [][Next]_vars

-----------------------------------------------------------------------------
\* Properties

Rendered == render_phases /= <<>>

\* wind_cycle as passed to the last update_led_strip call
LastPhase == render_phases[Len(render_phases)]

Lines == {last_pass.log[k] : k \in DOMAIN last_pass.log}

Written == {last_pass.writes[k][1] : k \in DOMAIN last_pass.writes}

LookedUp == {last_pass.lookups[k] : k \in DOMAIN last_pass.lookups}

\* the METAR element the feed held for a station
MetarOf(station) ==
    CHOOSE m \in {content[1].metars[k] : k \in DOMAIN content[1].metars} :
        m.station_id = <<station>>

Abs(x) == IF x < 0 THEN -x ELSE x

\* C1: whenever the lightning flag computed for an airport is true, the
\* colour written to its LED is the lightning colour, whatever the flight
\* category (the four known ones or any other) and the wind flags.
C1_LightningAlwaysWins ==
    \A line \in Lines :
        line.lightning =>
            /\ line.color = COLOR_LIGHTNING
            /\ pixels[line.led_index] = COLOR_LIGHTNING

\* C2: when the airport list and the legend together need more LEDs than
\* the strip has, a render pass reports the layout error and leaves the
\* strip as it was: after every pass the buffer is still the all-off buffer
\* the strip was created with.
C2_NoPartialWrite ==
    (Rendered /\ Len(airports) + LEGEND_LED_COUNT > config.LED_COUNT) =>
        /\ last_pass.legend = "no room"
        /\ pixels = [i \in DOMAIN pixels |-> COLOR_CLEAR]

\* C3: a failed fetch (fetch_metar_data raises, or parse_metar fails on the
\* content) does not end the program: it never dies of the exception.
C3_FetchFailureSurvived ==
    pc \notin {"fetch raised", "parse raised"}

\* C4: in a render pass the entry at list position i (from 0) gets LED index
\* i; a placeholder entry takes one index, is never looked up in the
\* observation set and has no colour written to its LED.
C4_PlaceholderLayout ==
    Rendered =>
        /\ Len(last_pass.slot) = Len(airports)
        /\ \A i \in 1..Len(airports) :
              /\ last_pass.slot[i] = i - 1
              /\ airports[i] \in {"NULL", "null"} =>
                    /\ airports[i] \notin LookedUp
                    /\ (i - 1) \notin Written
              /\ airports[i] \notin {"NULL", "null"} =>
                    /\ airports[i] \in LookedUp
                    /\ (i - 1) \in Written
        /\ Len(last_pass.lookups) =
              Cardinality({i \in 1..Len(airports) :
                              airports[i] \notin {"NULL", "null"}})

C4_Witness ==
    /\ Rendered
    /\ airports = <<"null", "KLIT">>
    /\ last_pass.slot = <<0, 1>>
    /\ last_pass.lookups = <<"KLIT">>
    /\ Written \cap {0, 1} = {1}

\* the table of base colours: green, blue, red, magenta, off
BaseColor(fc) ==
    CASE fc = "VFR" -> <<0, 255, 0>>
      [] fc = "MVFR" -> <<0, 0, 255>>
      [] fc = "IFR" -> <<255, 0, 0>>
      [] fc = "LIFR" -> <<255, 0, 255>>
      [] OTHER -> <<0, 0, 0>>

\* C5: with no hazard flag active an airport is written its base colour:
\* green for VFR, blue for MVFR, red for IFR, magenta for LIFR, off for any
\* other category; an airport with no entry in the observation set has all
\* flags false and is written off.
C5_BaseColor ==
    \A line \in Lines :
        LET got == DictGet(condition_dict, line.airport)
            calm == ~line.lightning /\ ~line.high_winds /\ ~line.windy
        IN  /\ got = <<>> => calm /\ line.color = <<0, 0, 0>>
            /\ (got /= <<>> /\ calm) =>
                  line.color = BaseColor(got[1].flightCategory)
            /\ calm => <<line.led_index, line.color>> \in
                          {last_pass.writes[k] : k \in DOMAIN last_pass.writes}

C5_Witness ==
    \E line \in Lines :
        /\ DictGet(condition_dict, line.airport) /= <<>>
        /\ condition_dict[line.airport].flightCategory = "LIFR"
        /\ condition_dict[line.airport].windSpeed >= WIND_BLINK_THRESHOLD
        /\ ~line.lightning /\ ~line.high_winds /\ ~line.windy
        /\ pixels[line.led_index] = <<255, 0, 255>>

\* an observation that has lightning and a wind speed at or above the blink
\* threshold, with both animations enabled
Stormy(line) ==
    /\ config.ACTIVATE_WIND_ANIMATION
    /\ config.ACTIVATE_LIGHTNING_ANIMATION
    /\ DictGet(condition_dict, line.airport) /= <<>>
    /\ condition_dict[line.airport].lightning
    /\ condition_dict[line.airport].windSpeed >= WIND_BLINK_THRESHOLD

C7_LegendBlockComplete ==
    (Rendered /\ Len(airports) + LEGEND_LED_COUNT <= config.LED_COUNT) =>
        \A k \in 0..(LEGEND_LED_COUNT - 1) :
            /\ (Len(airports) + k) \in Written
            /\ \A i \in 1..Len(airports) :
                  last_pass.slot[i] /= Len(airports) + k

\* C8: the first render uses phase False and consecutive renders use
\* opposite phases; each tick toggles the phase once; the observation set
\* at every render is the one parsed from the content fetched before the
\* loop.
C8_AlternatingPhases ==
    /\ \A i \in DOMAIN render_phases : render_phases[i] <=> (i % 2 = 0)
    /\ pc \in {"loop", "done"} =>
          /\ wind_cycle <=> (Len(render_phases) % 2 = 1)
          /\ condition_dict = parse_metar(content[1].metars)

C8_Witness ==
    /\ pc = "done"
    /\ render_phases = <<FALSE, TRUE, FALSE>>
    /\ condition_dict /= EmptyDict

\* C9: with wind animation enabled, in the wind phase, for a wind speed
\* below the blink threshold, an observation is windy exactly when a gust is
\* reported and ALWAYS_BLINK_FOR_GUSTS is set or the gust is strictly above
\* the threshold; a wind speed equal to the threshold is windy.
C9_GustToggle ==
    (Rendered /\ LastPhase /\ config.ACTIVATE_WIND_ANIMATION) =>
        \A line \in Lines :
            DictGet(condition_dict, line.airport) /= <<>> =>
                LET m == MetarOf(line.airport)
                    speed == IF m.wind_speed_kt = <<>> THEN 0
                             ELSE m.wind_speed_kt[1]
                IN  /\ speed < 15 =>
                          (line.windy <=>
                              /\ m.wind_gust_kt /= <<>>
                              /\ \/ config.ALWAYS_BLINK_FOR_GUSTS
                                 \/ m.wind_gust_kt[1] > 15)
                    /\ speed = 15 => line.windy

C9_Witness ==
    /\ Rendered /\ LastPhase /\ config.ACTIVATE_WIND_ANIMATION
    /\ ~config.ALWAYS_BLINK_FOR_GUSTS
    /\ \E line \in Lines :
          /\ DictGet(condition_dict, line.airport) /= <<>>
          /\ MetarOf(line.airport).wind_speed_kt = <<>>
          /\ MetarOf(line.airport).wind_gust_kt = <<15>>
          /\ ~line.windy

\* the number of passes C10 names: BLINK_TOTALTIME_SECONDS / BLINK_SPEED
\* rounded to the nearest integer when an animation or the external display
\* is enabled, 1 otherwise
IsLoopCount(n) ==
    IF \/ config.ACTIVATE_WIND_ANIMATION
       \/ config.ACTIVATE_LIGHTNING_ANIMATION
       \/ config.ACTIVATE_EXTERNAL_METAR_DISPLAY
    THEN 2 * Abs(10 * config.BLINK_TOTALTIME_SECONDS - n * config.BLINK_SPEED)
            <= config.BLINK_SPEED
    ELSE n = 1

\* C10: the animation loop ends after exactly loop_limit render passes:
\* loop_limit is never negative, the passes made plus loop_limit stay equal
\* to the count the claim names (so loop_limit falls by one per pass), at
\* each point either another pass is due or the loop can be left, and "Done"
\* is reached with loop_limit at zero.
C10_LoopTerminates ==
    /\ pc = "loop" =>
          /\ loop_limit >= 0
          /\ IsLoopCount(Len(render_phases) + loop_limit)
          /\ loop_limit > 0 \/ ENABLED Finish
    /\ pc = "done" =>
          /\ loop_limit = 0
          /\ IsLoopCount(Len(render_phases))

C10_Witness ==
    /\ pc = "done"
    /\ loop_limit = 0
    /\ Len(render_phases) = 3
    /\ config.BLINK_TOTALTIME_SECONDS = 2
    /\ config.BLINK_SPEED = 6

====
